---------------------------- MODULE Spec2Model ----------------------------
(***************************************************************************)
(* The wallet ledger of src/src/contexts/WalletContext.tsx together with   *)
(* the part of the identity provider (src/unnamed/part_000, AuthContext)   *)
(* it reads.                                                               *)
(*                                                                         *)
(* deposit, withdraw and transfer are async functions: each runs its       *)
(* checks synchronously against the state of the render it was called      *)
(* from, then awaits a 500 ms timer, then appends to the log with a        *)
(* functional state update.  A call is therefore two steps of the model:   *)
(* the call itself (checks, early returns, timer registration) and its     *)
(* resumption after the timer.  login and register are async as well:      *)
(* they await the same timer first and do all their work after it, on the  *)
(* `users` of the render they were called from; logout is synchronous.     *)
(* Timers of equal delay fire in the order they were registered, so the    *)
(* waiting calls of both providers form one queue.                         *)
(*                                                                         *)
(* A state update (setTransactions, setCurrentUser, setUsers) only queues  *)
(* the new value: the functions a caller holds keep reading the            *)
(* transactions, balance, currentUser and users of the render they were    *)
(* created in, until React has rendered again and the caller has taken the *)
(* functions of that render.  The variables transactions, currentUser and  *)
(* users hold the state of the providers with every queued update applied; *)
(* `view` holds what the functions of the callers read.                    *)
(*                                                                         *)
(* Time is in milliseconds.  The uuid `id` and the free-text `description` *)
(* of a Transaction are never read by the ledger logic and are left out.   *)
(***************************************************************************)
EXTENDS Integers, Sequences, FiniteSets

VARIABLES
    transactions,   \* the log: useState<Transaction[]>
    currentUser,    \* AuthContext currentUser (an id, or NoUser for null)
    users,          \* the registered users: useState<User[]>
    pending,        \* calls waiting in their setTimeout, oldest first
                    \* (of the wallet and of the identity provider alike)
    now,            \* the wall clock, Date.now()
    ret,            \* the promise of the call the last step made or resumed
    script,         \* calls a scripted caller has yet to make, in order
    submitted,      \* how many calls of login and register were made so far
    calendar,       \* the instants at which a day starts on the local clock
                    \* of the runtime (its time zone, with its clock changes)
    view            \* the render the callers hold their functions from: the
                    \* transactions, currentUser and users those close over

vars ==
    <<transactions, currentUser, users, pending, now, ret, script, submitted,
      calendar, view>>

---------------------------------------------------------------------------
(* Bounds of the model *)

\* Entries in the log, entries the waiting calls will append, and calls of
\* login and register, all told
MaxLog == 5

MaxPending == 2

\* 500 ms steps of the scripted callers, beyond the one-minute step
MaxWork == 7

MaxTicks == 2

\* Calls of login and register made in one behaviour by the arbitrary
\* callers of the wallet and by the callers that take turns
MaxIdentityCalls == 1

\* The same, by the callers that use the identity provider alone
MaxTurns == 2

TicksToMidnight == 1

---------------------------------------------------------------------------
(* Program constants *)

maxTransactionsPerMinute == 5

maxAmountPerTransaction == 10000

maxDailyWithdrawal == 5000

maxDailyTransfer == 5000

MinuteMs == 60000

TimerMs == 500

MsPerDay == 24 * 60 * 60 * 1000

HourMs == 60 * 60 * 1000

\* The local days of a runtime, as the set of the instants at which its
\* clock reads 00:00:00.000 (what setHours(0, 0, 0, 0) moves a Date to).
\* The sets hold the midnights of the days the modelled instants fall in.
\* A runtime on universal time: every day starts a multiple of 24 hours
\* after instant 0
UtcDays == {k * MsPerDay : k \in 0..2}

\* A runtime five and a half hours ahead of universal time (Asia/Kolkata)
KolkataDays == {k * MsPerDay - (5 * HourMs + 30 * MinuteMs) : k \in 0..2}

\* A runtime whose clock is put forward an hour during the day that starts
\* at instant 0: that day lasts 23 hours, the later ones 24
SpringForwardDays == {0} \cup {k * MsPerDay - HourMs : k \in 1..2}

\* A runtime whose clock is put back an hour during the day that starts at
\* instant 0: that day lasts 25 hours, the later ones 24
FallBackDays == {0} \cup {k * MsPerDay + HourMs : k \in 1..2}

NoUser == "none"

\* User ids.  A and B are also the ids a transfer may name as recipient;
\* C and D are further ids uuidv4() may hand out.
Actors == {"A", "B", "C", "D"}

Recipients == {"A", "B"}

\* What the arbitrary callers of the wallet pass to login and to register
Logins == {<<"A", "pw">>}

Registrations == {<<"B", "pw">>}

IdentityOps == {"login", "register"}

WalletOps == {"deposit", "withdraw", "transfer"}

Amounts == {0, 5000}

\* How far the clock may move between two consecutive `new Date()` calls.
ClockSkew == {0, 1}

StartTime == MsPerDay - TicksToMidnight * TimerMs

EndTime == StartTime + MaxTicks * TimerMs

ScriptEndTime == StartTime + MinuteMs + MaxWork * TimerMs

NoRet == [op |-> "none", val |-> "none"]

---------------------------------------------------------------------------
(* The log and what is derived from it *)

Transaction(userId, type, amount, senderOrRecipient, timestamp) ==
    [userId |-> userId, type |-> type, amount |-> amount,
     senderOrRecipient |-> senderOrRecipient, timestamp |-> timestamp]

RECURSIVE SumAmounts(_)
SumAmounts(s) ==
    IF s = <<>> THEN 0 ELSE Head(s).amount + SumAmounts(Tail(s))

\* Signed with the transfer_in case missing from the switch
SignedNoTransferIn(t) ==
    CASE t.type \in {"deposit"} -> t.amount
      [] t.type \in {"withdrawal", "transfer_out"} -> 0 - t.amount
      [] OTHER -> 0

Signed(t) ==
    CASE t.type \in {"deposit", "transfer_in"} -> t.amount
      [] t.type \in {"withdrawal", "transfer_out"} -> 0 - t.amount
      [] OTHER -> 0

RECURSIVE Reduce(_)
Reduce(s) ==
    IF s = <<>> THEN 0 ELSE Signed(Head(s)) + Reduce(Tail(s))

BalanceOf(log, user) ==
    Reduce(SelectSeq(log, LAMBDA t : t.userId = user))

balance == BalanceOf(view.transactions, view.currentUser)

\* StartOfDay for a runtime whose days all last 24 hours and start at the
\* multiples of a day since instant 0
StartOfDayEpoch(t) == t - (t % MsPerDay)

\* today.setHours(0, 0, 0, 0): the instant at which the local clock last
\* read 00:00:00.000, that is the start of the local calendar day of t
StartOfDay(t) ==
    CHOOSE m \in calendar :
        /\ m <= t
        /\ \A n \in calendar : n <= t => n <= m

\* RecentTransactions that also takes the entry exactly one minute old
RecentTransactionsInclusive(log, user, t) ==
    SelectSeq(log, LAMBDA e : e.userId = user /\ e.timestamp >= t - MinuteMs)

RecentTransactions(log, user, t) ==
    SelectSeq(log, LAMBDA e : e.userId = user /\ e.timestamp > t - MinuteMs)

\* DailyTotal without the userId test of its filter
DailyTotalOfAll(log, user, type, t) ==
    LET today == StartOfDay(t)
    IN  SumAmounts(SelectSeq(log, LAMBDA e : /\ e.type = type
                                             /\ e.timestamp >= today))

DailyTotal(log, user, type, t) ==
    LET today == StartOfDay(t)
    IN  SumAmounts(SelectSeq(log, LAMBDA e : /\ e.userId = user
                                             /\ e.type = type
                                             /\ e.timestamp >= today))

\* RateLimitReturn whose daily rules compare the sum alone, without the
\* requested amount
RateLimitReturnSumOnly(log, user, t, amount, type) ==
    IF user = NoUser THEN "no user"
    ELSE IF amount > maxAmountPerTransaction THEN "per transaction"
    ELSE IF Len(RecentTransactions(log, user, t)) >= maxTransactionsPerMinute
         THEN "per minute"
    ELSE IF /\ type = "withdrawal"
            /\ DailyTotal(log, user, "withdrawal", t) > maxDailyWithdrawal
         THEN "daily withdrawal"
    ELSE IF /\ type = "transfer"
            /\ DailyTotal(log, user, "transfer_out", t) > maxDailyTransfer
         THEN "daily transfer"
    ELSE "allowed"

\* RateLimitReturn with the per-transaction comparison off by one (>= for >)
RateLimitReturnCapInclusive(log, user, t, amount, type) ==
    IF user = NoUser THEN "no user"
    ELSE IF amount >= maxAmountPerTransaction THEN "per transaction"
    ELSE IF Len(RecentTransactions(log, user, t)) >= maxTransactionsPerMinute
         THEN "per minute"
    ELSE IF /\ type = "withdrawal"
            /\ DailyTotal(log, user, "withdrawal", t) + amount > maxDailyWithdrawal
         THEN "daily withdrawal"
    ELSE IF /\ type = "transfer"
            /\ DailyTotal(log, user, "transfer_out", t) + amount > maxDailyTransfer
         THEN "daily transfer"
    ELSE "allowed"

\* The return statement at which checkRateLimits leaves, named by the rule
\* it belongs to: the rules are tried in the order of the code and the
\* first one that is broken returns
RateLimitReturn(log, user, t, amount, type) ==
    IF user = NoUser THEN "no user"
    ELSE IF amount > maxAmountPerTransaction THEN "per transaction"
    ELSE IF Len(RecentTransactions(log, user, t)) >= maxTransactionsPerMinute
         THEN "per minute"
    ELSE IF /\ type = "withdrawal"
            /\ DailyTotal(log, user, "withdrawal", t) + amount > maxDailyWithdrawal
         THEN "daily withdrawal"
    ELSE IF /\ type = "transfer"
            /\ DailyTotal(log, user, "transfer_out", t) + amount > maxDailyTransfer
         THEN "daily transfer"
    ELSE "allowed"

CheckRateLimits(log, user, t, amount, type) ==
    RateLimitReturn(log, user, t, amount, type) = "allowed"

checkRateLimits(amount, type) ==
    CheckRateLimits(view.transactions, view.currentUser, now, amount, type)

\* Positions of the log owned by `user`, in insertion order:
\* transactions.filter(t => t.userId === currentUser.id)
RECURSIVE OwnedFrom(_, _, _)
OwnedFrom(log, user, i) ==
    IF i > Len(log) THEN <<>>
    ELSE (IF log[i].userId = user THEN <<i>> ELSE <<>>)
             \o OwnedFrom(log, user, i + 1)

\* InsertByTime putting a position before the positions of equal timestamp
RECURSIVE InsertByTimeFirst(_, _, _)
InsertByTimeFirst(log, sorted, i) ==
    IF sorted = <<>> THEN <<i>>
    ELSE IF log[Head(sorted)].timestamp > log[i].timestamp
         THEN <<Head(sorted)>> \o InsertByTimeFirst(log, Tail(sorted), i)
         ELSE <<i>> \o sorted

\* Position i put into `sorted` (newest first) behind every position whose
\* timestamp is not older: the comparator b.timestamp - a.timestamp of a
\* stable sort
RECURSIVE InsertByTime(_, _, _)
InsertByTime(log, sorted, i) ==
    IF sorted = <<>> THEN <<i>>
    ELSE IF log[Head(sorted)].timestamp >= log[i].timestamp
         THEN <<Head(sorted)>> \o InsertByTime(log, Tail(sorted), i)
         ELSE <<i>> \o sorted

RECURSIVE SortNewestFirst(_, _)
SortNewestFirst(log, positions) ==
    IF positions = <<>> THEN <<>>
    ELSE InsertByTime(log,
                      SortNewestFirst(log, SubSeq(positions, 1, Len(positions) - 1)),
                      positions[Len(positions)])

\* The positions of the log that getTransactionHistory returns, in order
HistoryOrder(log, user) ==
    IF user = NoUser THEN <<>>
    ELSE SortNewestFirst(log, OwnedFrom(log, user, 1))

getTransactionHistory ==
    LET h == HistoryOrder(view.transactions, view.currentUser)
    IN  [k \in 1..Len(h) |-> view.transactions[h[k]]]

---------------------------------------------------------------------------
(* Calls: the synchronous part, up to the await *)

Promise(op, val) == [op |-> op, val |-> val]

Call(op, amount, recipientId) ==
    [op |-> op, userId |-> view.currentUser, amount |-> amount,
     recipientId |-> recipientId, due |-> now + TimerMs]

\* Reject that records the refused attempt in the log
RejectLogged(op) ==
    /\ ret' = [op |-> op, val |-> "false"]
    /\ transactions' = Append(transactions,
                              Transaction(view.currentUser, "withdrawal", 0, NoUser, now))
    /\ UNCHANGED pending

Reject(op) ==
    /\ ret' = Promise(op, "false")
    /\ UNCHANGED <<transactions, pending>>

\* Await that also records the allowed request in the log
AwaitLogged(op, amount, recipientId) ==
    /\ pending' = Append(pending, Call(op, amount, recipientId))
    /\ ret' = Promise(op, "pending")
    /\ transactions' = Append(transactions,
                              Transaction(view.currentUser, "deposit", amount, NoUser, now))

Await(op, amount, recipientId) ==
    /\ pending' = Append(pending, Call(op, amount, recipientId))
    /\ ret' = Promise(op, "pending")
    /\ UNCHANGED transactions

\* depositRejects without the amount check
depositRejectsNobody(amount) ==
    view.currentUser = NoUser

\* depositRejects consulting the rate limiter as withdraw does
depositRejectsLimited(amount) ==
    \/ view.currentUser = NoUser \/ amount <= 0
    \/ ~checkRateLimits(amount, "withdrawal")

\* depositRejects without the test for a current actor
depositRejectsAnonymous(amount) ==
    amount <= 0

depositRejects(amount) ==
    view.currentUser = NoUser \/ amount <= 0

withdrawRejects(amount) ==
    \/ view.currentUser = NoUser \/ amount <= 0 \/ amount > balance
    \/ ~checkRateLimits(amount, "withdrawal")

\* transferRejects without the self-transfer check
transferRejectsToOthers(amount, recipientId) ==
    \/ view.currentUser = NoUser \/ amount <= 0 \/ amount > balance
    \/ ~checkRateLimits(amount, "transfer")

\* Whether transfer(amount, recipientId), called by `user` at instant t
\* with the log as it was rendered, returns false before its await
TransferRejects(log, user, t, amount, recipientId) ==
    \/ user = NoUser \/ amount <= 0 \/ amount > BalanceOf(log, user)
    \/ user = recipientId
    \/ ~CheckRateLimits(log, user, t, amount, "transfer")

transferRejects(amount, recipientId) ==
    TransferRejects(view.transactions, view.currentUser, now, amount, recipientId)

\* The value the promise of withdraw(amount) holds once the call has run
\* up to its first return or await
withdrawReturns(amount) ==
    IF withdrawRejects(amount) THEN "false" ELSE "pending"

\* The check at which withdraw(amount) returns false, in the order the
\* code evaluates them: the || chain of its first if, then the rate limits
withdrawFailure(amount) ==
    IF view.currentUser = NoUser THEN "no user"
    ELSE IF amount <= 0 THEN "amount"
    ELSE IF amount > balance THEN "funds"
    ELSE IF ~checkRateLimits(amount, "withdrawal") THEN "rate limit"
    ELSE "none"

deposit(amount) ==
    /\ IF depositRejects(amount)
       THEN Reject("deposit")
       ELSE Await("deposit", amount, NoUser)
    /\ UNCHANGED <<currentUser, users, now>>

withdraw(amount) ==
    /\ IF withdrawRejects(amount)
       THEN Reject("withdraw")
       ELSE Await("withdraw", amount, NoUser)
    /\ UNCHANGED <<currentUser, users, now>>

transfer(amount, recipientId) ==
    /\ IF transferRejects(amount, recipientId)
       THEN Reject("transfer")
       ELSE Await("transfer", amount, recipientId)
    /\ UNCHANGED <<currentUser, users, now>>

---------------------------------------------------------------------------
(* Calls: the part after the await *)

depositEntries(c, t) ==
    <<Transaction(c.userId, "deposit", c.amount, NoUser, t)>>

\* withdrawEntries stamped with the instant of the call, not of the append
withdrawEntriesAtCall(c, t) ==
    <<Transaction(c.userId, "withdrawal", c.amount, NoUser, c.due - TimerMs)>>

withdrawEntries(c, t) ==
    <<Transaction(c.userId, "withdrawal", c.amount, NoUser, t)>>

\* transferEntries appending the sender's entry alone
transferEntriesOutOnly(c, t1, t2) ==
    <<Transaction(c.userId, "transfer_out", c.amount, c.recipientId, t1)>>

\* transferEntries naming the recipient as its own counterparty
transferEntriesSelfNamed(c, t1, t2) ==
    <<Transaction(c.userId, "transfer_out", c.amount, c.recipientId, t1),
      Transaction(c.recipientId, "transfer_in", c.amount, c.recipientId, t2)>>

\* transferEntries reading the current actor at the time of the append
transferEntriesCurrentActor(c, t1, t2) ==
    <<Transaction(currentUser, "transfer_out", c.amount, c.recipientId, t1),
      Transaction(c.recipientId, "transfer_in", c.amount, currentUser, t2)>>

\* t1 and t2 are the values of the two `new Date()` calls
transferEntries(c, t1, t2) ==
    <<Transaction(c.userId, "transfer_out", c.amount, c.recipientId, t1),
      Transaction(c.recipientId, "transfer_in", c.amount, c.userId, t2)>>

NewEntries(c, t1, t2) ==
    CASE c.op = "deposit" -> depositEntries(c, t1)
      [] c.op = "withdraw" -> withdrawEntries(c, t1)
      [] c.op = "transfer" -> transferEntries(c, t1, t2)

\* resume putting the new entries first: prev => [..., ...prev]
resumeNewestFirst ==
    /\ pending # <<>>
    /\ Head(pending).op \in WalletOps
    /\ now >= Head(pending).due
    /\ \E skew \in ClockSkew :
          /\ skew > 0 => Head(pending).op = "transfer"
          /\ transactions' =
                 NewEntries(Head(pending), now, now + skew) \o transactions
          /\ now' = now + skew
    /\ pending' = Tail(pending)
    /\ ret' = [op |-> Head(pending).op, val |-> "true"]
    /\ UNCHANGED <<currentUser, users>>

\* setTransactions(prev => [...prev, ...]); return true
resume ==
    /\ pending # <<>>
    /\ Head(pending).op \in WalletOps
    /\ now >= Head(pending).due
    /\ \E skew \in ClockSkew :
          /\ skew > 0 => Head(pending).op = "transfer"
          /\ transactions' =
                 transactions \o NewEntries(Head(pending), now, now + skew)
          /\ now' = now + skew
    /\ pending' = Tail(pending)
    /\ ret' = Promise(Head(pending).op, "true")
    /\ UNCHANGED <<currentUser, users>>

---------------------------------------------------------------------------
(* The identity provider *)

(* login and register are async too: each awaits a 500 ms timer first and  *)
(* only then reads `users`, and what it reads is the `users` of the render *)
(* it was called from.  The name and the creation date of a User are never *)
(* read by the wallet and are left out.                                    *)

User(id, email, password) ==
    [id |-> id, email |-> email, password |-> password]

UserIds(us) == {us[i].id : i \in 1..Len(us)}

\* login(email, password) up to its await
login(email, password) ==
    /\ pending' = Append(pending,
                         [op |-> "login", email |-> email,
                          password |-> password, users |-> view.users,
                          due |-> now + TimerMs])
    /\ ret' = Promise("login", "pending")
    /\ UNCHANGED <<transactions, currentUser, users, now>>

\* users.find(u => u.email === email && u.password === password), as the
\* id of the first match, or NoUser for undefined
RECURSIVE Find(_, _, _)
Find(us, email, password) ==
    IF us = <<>> THEN NoUser
    ELSE IF Head(us).email = email /\ Head(us).password = password
         THEN Head(us).id
         ELSE Find(Tail(us), email, password)

\* login after its await
loginCompletes ==
    /\ pending # <<>>
    /\ Head(pending).op = "login"
    /\ now >= Head(pending).due
    /\ LET c == Head(pending)
           user == Find(c.users, c.email, c.password)
       IN  IF user # NoUser
           THEN currentUser' = user /\ ret' = Promise("login", "true")
           ELSE currentUser' = currentUser /\ ret' = Promise("login", "false")
    /\ pending' = Tail(pending)
    /\ UNCHANGED <<transactions, users, now>>

\* register(name, email, password) up to its await
register(email, password) ==
    /\ pending' = Append(pending,
                         [op |-> "register", email |-> email,
                          password |-> password, users |-> view.users,
                          due |-> now + TimerMs])
    /\ ret' = Promise("register", "pending")
    /\ UNCHANGED <<transactions, currentUser, users, now>>

\* Ids that are in use: of the users, of the owners of entries, and of the
\* owners and recipients of the calls that wait
UsedIds ==
    UserIds(users)
    \cup {transactions[i].userId : i \in 1..Len(transactions)}
    \cup UNION {{pending[i].userId, pending[i].recipientId} :
                   i \in {j \in 1..Len(pending) : pending[j].op \in WalletOps}}

\* uuidv4(): an id nobody has.  Ids are opaque, so of the unused ids one is
\* taken: the one spelled like the email when that is unused
NewId(email) ==
    IF email \in Actors \ UsedIds THEN email
    ELSE CHOOSE id \in Actors \ UsedIds : TRUE

\* register after its await
registerCompletes ==
    /\ pending # <<>>
    /\ Head(pending).op = "register"
    /\ now >= Head(pending).due
    /\ LET c == Head(pending)
       IN  IF \E i \in 1..Len(c.users) : c.users[i].email = c.email
           THEN /\ ret' = Promise("register", "false")
                /\ UNCHANGED <<users, currentUser>>
           ELSE /\ users' = Append(users,
                                   User(NewId(c.email), c.email, c.password))
                /\ currentUser' = NewId(c.email)
                /\ ret' = Promise("register", "true")
    /\ pending' = Tail(pending)
    /\ UNCHANGED <<transactions, now>>

logout ==
    /\ currentUser' = NoUser
    /\ ret' = NoRet
    /\ UNCHANGED <<transactions, users, pending, now>>

getUserById(id) == IF id \in UserIds(view.users) THEN id ELSE NoUser

---------------------------------------------------------------------------
(* The clock *)

Tick(d) ==
    /\ now' = now + d
    /\ ret' = NoRet
    /\ UNCHANGED <<transactions, currentUser, users, pending>>

---------------------------------------------------------------------------
(* Rendering *)

\* What the provider functions of a render made now would close over
Rendered ==
    [transactions |-> transactions, currentUser |-> currentUser,
     users |-> users]

\* React runs the provider components again with every queued update
\* applied, and the callers take the functions of that render.  No promise
\* settles in this step.  A caller that goes on using the functions it has
\* (an async function that awaits one call and then makes the next) has not
\* taken this step, whatever React has rendered in between.
Render ==
    /\ view # Rendered
    /\ view' = Rendered
    /\ UNCHANGED <<transactions, currentUser, users, pending, now, ret,
                   script, submitted, calendar>>

---------------------------------------------------------------------------
(* The wallet under arbitrary callers *)

WillAppend(op) ==
    CASE op = "transfer" -> 2
      [] op \in {"deposit", "withdraw"} -> 1
      [] OTHER -> 0

RECURSIVE Queued(_)
Queued(q) == IF q = <<>> THEN 0 ELSE WillAppend(Head(q).op) + Queued(Tail(q))

Room(op) ==
    /\ Len(pending) < MaxPending
    /\ Len(transactions) + Queued(pending) + submitted + WillAppend(op) <= MaxLog

\* The providers have mounted and rendered.  A is registered; the session
\* found in storage is A's or none
Init ==
    /\ transactions = <<>>
    /\ currentUser \in {NoUser, "A"}
    /\ users = <<User("A", "A", "pw")>>
    /\ pending = <<>>
    /\ now = StartTime
    /\ ret = NoRet
    /\ script = <<>>
    /\ submitted = 0
    /\ calendar = UtcDays
    /\ view = Rendered

CallDeposit ==
    /\ \E a \in Amounts : Room("deposit") /\ deposit(a)
    /\ UNCHANGED <<script, submitted, calendar, view>>

CallWithdraw ==
    /\ \E a \in Amounts : Room("withdraw") /\ withdraw(a)
    /\ UNCHANGED <<script, submitted, calendar, view>>

CallTransfer ==
    /\ \E a \in Amounts, r \in Recipients : Room("transfer") /\ transfer(a, r)
    /\ UNCHANGED <<script, submitted, calendar, view>>

Resume == resume /\ UNCHANGED <<script, submitted, calendar, view>>

IdentityRoom ==
    /\ Len(pending) < MaxPending
    /\ submitted < MaxIdentityCalls
    /\ Len(transactions) + Queued(pending) + submitted + 1 <= MaxLog

Register ==
    /\ IdentityRoom
    /\ \E r \in Registrations : register(r[1], r[2])
    /\ submitted' = submitted + 1
    /\ UNCHANGED <<script, calendar, view>>

RegisterDone == registerCompletes /\ UNCHANGED <<script, submitted, calendar, view>>

Login ==
    /\ IdentityRoom
    /\ \E l \in Logins : login(l[1], l[2])
    /\ submitted' = submitted + 1
    /\ UNCHANGED <<script, calendar, view>>

LoginDone == loginCompletes /\ UNCHANGED <<script, submitted, calendar, view>>

Logout == currentUser # NoUser /\ logout /\ UNCHANGED <<script, submitted, calendar, view>>

Clock == now + TimerMs <= EndTime /\ Tick(TimerMs) /\ UNCHANGED <<script, submitted, calendar, view>>

Next ==
    \/ CallDeposit
    \/ CallWithdraw
    \/ CallTransfer
    \/ Resume
    \/ Register
    \/ RegisterDone
    \/ Login
    \/ LoginDone
    \/ Logout
    \/ Render
    \/ Clock

Spec == Init /\ [][Next]_vars

---------------------------------------------------------------------------
(* One actor, already logged in, making one call after another: a funding  *)
(* deposit, then withdrawals of 1, each call made only once the previous   *)
(* one has returned.  The clock moves in timer steps and in whole minutes. *)

MinuteDeposits == {10}

MinuteWithdrawals == {1}

MinuteInit ==
    /\ transactions = <<>>
    /\ currentUser = "A"
    /\ users = <<User("A", "A", "pw")>>
    /\ pending = <<>>
    /\ now = StartTime
    /\ ret = NoRet
    /\ script = <<>>
    /\ submitted = 0
    /\ calendar = UtcDays
    /\ view = Rendered

Fund ==
    /\ pending = <<>>
    /\ transactions = <<>>
    /\ \E a \in MinuteDeposits : deposit(a)
    /\ UNCHANGED <<script, submitted, calendar, view>>

PayOut ==
    /\ pending = <<>>
    /\ transactions # <<>>
    /\ Len(transactions) <= maxTransactionsPerMinute + 1
    /\ \E a \in MinuteWithdrawals : withdraw(a)
    /\ UNCHANGED <<script, submitted, calendar, view>>

\* Timer steps taken since the last whole-minute step
WorkDone == ((now - StartTime) % MinuteMs) \div TimerMs

ScriptClock ==
    /\ \/ WorkDone < MaxWork /\ Tick(TimerMs)
       \/ now + MinuteMs <= ScriptEndTime /\ Tick(MinuteMs)
    /\ UNCHANGED <<script, submitted, calendar, view>>

MinuteNext == Fund \/ PayOut \/ Resume \/ Render \/ ScriptClock

SpecMinute == MinuteInit /\ [][MinuteNext]_vars

---------------------------------------------------------------------------
(* One funded actor who does not wait for a withdrawal to return before    *)
(* asking for the next: up to MaxPending calls wait in their timers.       *)

Burst ==
    /\ transactions # <<>>
    /\ Len(pending) < MaxPending
    /\ Len(transactions) + Len(pending) <= maxTransactionsPerMinute + 1
    /\ \E a \in MinuteWithdrawals : withdraw(a)
    /\ UNCHANGED <<script, submitted, calendar, view>>

BurstNext == Fund \/ Burst \/ Resume \/ Render \/ ScriptClock

SpecBurst == MinuteInit /\ [][BurstNext]_vars

---------------------------------------------------------------------------
(* The identity provider under callers of the context itself, which may    *)
(* call login and register again while a call of theirs waits.             *)

DirectRegistrations == {<<"A", "pw">>, <<"B", "pw">>}

\* with a wrong password and an email nobody registered among them
DirectLogins == Logins \cup {<<"A", "no">>, <<"B", "pw">>}

DirectInit ==
    /\ transactions = <<>>
    /\ \/ users = <<>> /\ currentUser = NoUser
       \/ users = <<User("A", "A", "pw")>> /\ currentUser \in {NoUser, "A"}
    /\ pending = <<>>
    /\ now = StartTime
    /\ ret = NoRet
    /\ script = <<>>
    /\ submitted = 0
    /\ calendar = UtcDays
    /\ view = Rendered

SubmitRoom == Len(pending) < MaxPending /\ submitted < MaxTurns

DirectRegister ==
    /\ SubmitRoom
    /\ \E r \in DirectRegistrations : register(r[1], r[2])
    /\ submitted' = submitted + 1
    /\ UNCHANGED <<script, calendar, view>>

DirectLogin ==
    /\ SubmitRoom
    /\ \E l \in DirectLogins : login(l[1], l[2])
    /\ submitted' = submitted + 1
    /\ UNCHANGED <<script, calendar, view>>

DirectNext ==
    \/ DirectRegister
    \/ RegisterDone
    \/ DirectLogin
    \/ LoginDone
    \/ Logout
    \/ Render
    \/ Clock

SpecDirect == DirectInit /\ [][DirectNext]_vars

\* Two calls of register for one email were both waiting, and both appended
RegisteredTwice ==
    \E i, j \in 1..Len(users) : i < j /\ users[i].email = users[j].email

---------------------------------------------------------------------------
(* Two registered actors taking turns, one call at a time: deposits and    *)
(* withdrawals in any order, so that a deposit is also asked for by an     *)
(* actor whose last minute already holds many entries.                     *)

TurnsInit ==
    /\ transactions = <<>>
    /\ currentUser = "A"
    /\ users = <<User("A", "A", "pw"), User("B", "B", "pw")>>
    /\ pending = <<>>
    /\ now = StartTime
    /\ ret = NoRet
    /\ script = <<>>
    /\ submitted = 0
    /\ calendar = UtcDays
    /\ view = Rendered

TopUp ==
    /\ pending = <<>>
    /\ Len(transactions) <= maxTransactionsPerMinute + 1
    /\ \E a \in MinuteDeposits : deposit(a)
    /\ UNCHANGED <<script, submitted, calendar, view>>

TakeOut ==
    /\ pending = <<>>
    /\ Len(transactions) <= maxTransactionsPerMinute + 1
    /\ \E a \in MinuteWithdrawals : withdraw(a)
    /\ UNCHANGED <<script, submitted, calendar, view>>

\* The actor changes: the other registered user logs in, and is the
\* current user once the timer has fired and React has rendered
SwitchUser ==
    /\ IdentityRoom
    /\ \E i \in 1..Len(users) :
          /\ users[i].id # currentUser
          /\ login(users[i].email, users[i].password)
    /\ submitted' = submitted + 1
    /\ UNCHANGED <<script, calendar, view>>

TurnsClock ==
    WorkDone < MaxWork /\ Tick(TimerMs) /\ UNCHANGED <<script, submitted, calendar, view>>

TurnsNext ==
    TopUp \/ TakeOut \/ SwitchUser \/ LoginDone \/ Resume \/ Render
        \/ TurnsClock

SpecTurns == TurnsInit /\ [][TurnsNext]_vars

---------------------------------------------------------------------------
(* A scripted caller: the calls of `script`, in order, each made once the  *)
(* previous one has returned.                                              *)

Request(op, amount, recipientId) ==
    [op |-> op, amount |-> amount, recipientId |-> recipientId]

Scenario ==
    << Request("deposit", 100, NoUser),
       Request("withdraw", 30, NoUser),
       Request("transfer", 50, "B"),
       Request("withdraw", 25, NoUser) >>

ScenarioInit ==
    /\ transactions = <<>>
    /\ currentUser = "A"
    /\ users = <<User("A", "A", "pw"), User("B", "B", "pw")>>
    /\ pending = <<>>
    /\ now = StartTime
    /\ ret = NoRet
    /\ script = Scenario
    /\ submitted = 0
    /\ calendar = UtcDays
    /\ view = Rendered

Perform(r) ==
    CASE r.op = "deposit" -> deposit(r.amount)
      [] r.op = "withdraw" -> withdraw(r.amount)
      [] r.op = "transfer" -> transfer(r.amount, r.recipientId)

NextCall ==
    /\ script # <<>>
    /\ pending = <<>>
    /\ Perform(Head(script))
    /\ script' = Tail(script)
    /\ UNCHANGED <<submitted, calendar, view>>

ScenarioNext == NextCall \/ Resume \/ Render \/ ScriptClock

SpecScenario == ScenarioInit /\ [][ScenarioNext]_vars

---------------------------------------------------------------------------
(* The rate limits as a function of the log and the clock.  The provider   *)
(* starts from the log it finds in storage, so the log and the instant of  *)
(* a call are inputs, and so is the local clock of the runtime: the log is *)
(* drawn from logs earlier sessions of A and B leave behind (both funded   *)
(* at instant 0, then up to six completed calls just before and at an      *)
(* instant m), the instant of the call from the three instants at which m  *)
(* is just inside, exactly at, and just outside the trailing minute.  The  *)
(* instant m is midnight on the local clock of three of the four runtimes  *)
(* drawn and the end of the 24th hour of a day of 25 hours on the fourth.  *)
(* A then makes one call, from the render that shows the log drawn, and    *)
(* lets it complete; nothing is called or read after that.                 *)

FundingAmounts == {20000}

HistoryAmounts == {2500}

LimiterAmounts == {2500, 2501, 5001, 10000, 10001}

\* The runtimes drawn, each with the instant m its history lies around
LimiterSessions ==
    { <<UtcDays, MsPerDay>>,
      <<KolkataDays, MsPerDay - (5 * HourMs + 30 * MinuteMs)>>,
      <<SpringForwardDays, MsPerDay - HourMs>>,
      <<FallBackDays, MsPerDay>> }

HistoryTimes(m) == {m - 1, m}

ProbeInstantsOf(m) == {m + MinuteMs - 2, m + MinuteMs - 1, m + MinuteMs}

ProbeInstants == UNION {ProbeInstantsOf(s[2]) : s \in LimiterSessions}

MaxDrawn == maxTransactionsPerMinute + 1

\* A completed call, as the record of the call with the instant it was
\* resumed at in `due`
Completed(op, userId, amount, recipientId, t) ==
    [op |-> op, userId |-> userId, amount |-> amount,
     recipientId |-> recipientId, due |-> t]

Funding(a) ==
    << Completed("deposit", "A", a, NoUser, 0),
       Completed("deposit", "B", a, NoUser, 0) >>

HistoryCalls(m) ==
    {Completed("deposit", "A", a, NoUser, t) :
        a \in HistoryAmounts, t \in HistoryTimes(m)}
    \cup {Completed("withdraw", "A", a, NoUser, t) :
              a \in HistoryAmounts, t \in HistoryTimes(m)}
    \cup {Completed("transfer", "A", a, "B", t) :
              a \in HistoryAmounts, t \in HistoryTimes(m)}
    \cup {Completed("transfer", "B", a, "A", t) :
              a \in HistoryAmounts, t \in HistoryTimes(m)}

\* The log a sequence of completed calls leaves behind
RECURSIVE Replay(_)
Replay(calls) ==
    IF calls = <<>> THEN <<>>
    ELSE NewEntries(Head(calls), Head(calls).due, Head(calls).due)
             \o Replay(Tail(calls))

\* The limiter reads owners, kinds, amounts and timestamps, never the
\* order of the log, so of the calls completed at one instant only one
\* order is drawn: deposits, withdrawals, transfers of A, transfers of B
OrderAtInstant(c) ==
    CASE c.op = "deposit" -> 1
      [] c.op = "withdraw" -> 2
      [] c.op = "transfer" /\ c.userId = "A" -> 3
      [] OTHER -> 4

InTimeOrder(calls) ==
    \A i \in 1..(Len(calls) - 1) :
        \/ calls[i].due < calls[i + 1].due
        \/ /\ calls[i].due = calls[i + 1].due
           /\ OrderAtInstant(calls[i]) <= OrderAtInstant(calls[i + 1])

DrawnLogs(m) ==
    {Replay(Funding(a) \o calls) :
        a \in FundingAmounts,
        calls \in {s \in UNION {[1..n -> HistoryCalls(m)] : n \in 0..MaxDrawn} :
                      InTimeOrder(s)}}

LimiterInit ==
    /\ \E s \in LimiterSessions :
          /\ calendar = s[1]
          /\ transactions \in DrawnLogs(s[2])
          /\ now \in ProbeInstantsOf(s[2])
    /\ currentUser = "A"
    /\ users = <<User("A", "A", "pw"), User("B", "B", "pw")>>
    /\ pending = <<>>
    /\ ret = NoRet
    /\ script = <<>>
    /\ submitted = 0
    /\ view = Rendered

AskWithdraw ==
    /\ ret = NoRet
    /\ now \in ProbeInstants
    /\ \E a \in LimiterAmounts : withdraw(a)
    /\ UNCHANGED <<script, submitted, calendar, view>>

AskTransfer ==
    /\ ret = NoRet
    /\ now \in ProbeInstants
    /\ \E a \in LimiterAmounts : transfer(a, "B")
    /\ UNCHANGED <<script, submitted, calendar, view>>

\* The timer of the call that waits runs out
LimiterClock ==
    /\ pending # <<>>
    /\ now < Head(pending).due
    /\ Tick(Head(pending).due - now)
    /\ UNCHANGED <<script, submitted, calendar, view>>

LimiterNext ==
    AskWithdraw \/ AskTransfer \/ Resume \/ LimiterClock

SpecLimiter == LimiterInit /\ [][LimiterNext]_vars

---------------------------------------------------------------------------
(* Properties *)

Range(s) == {s[i] : i \in 1..Len(s)}

OfType(log, type) == SelectSeq(log, LAMBDA e : e.type = type)

RECURSIVE SumBalancesOf(_, _)
SumBalancesOf(log, S) ==
    IF S = {} THEN 0
    ELSE LET u == CHOOSE x \in S : TRUE
         IN  BalanceOf(log, u) + SumBalancesOf(log, S \ {u})

SumBalances == SumBalancesOf(transactions, Actors)

\* What `user` moved out as entries of `type` on the calendar day starting at `day`
TotalOnDay(log, user, type, day) ==
    SumAmounts(SelectSeq(log, LAMBDA e : /\ e.userId = user
                                         /\ e.type = type
                                         /\ StartOfDay(e.timestamp) = day))

Days == {StartOfDay(e.timestamp) : e \in Range(transactions)}

\* C1: in every reachable state the balance derived from the log is >= 0
\* for every actor, whatever the interleaving of the calls.
C1_NoNegativeBalance ==
    \A u \in Actors : BalanceOf(transactions, u) >= 0

MatchingIn(out, in) ==
    /\ in.type = "transfer_in"
    /\ in.userId = out.senderOrRecipient
    /\ in.amount = out.amount
    /\ in.senderOrRecipient = out.userId

\* C2: in every reachable state of the log every transfer_out entry is
\* directly followed by its matching transfer_in entry (owner = the
\* counterparty, same amount, counterparty = the sender) and every
\* transfer_in entry directly follows its matching transfer_out entry: no
\* state holds one entry of a pair without the other.
C2_TransferPairsAtomic ==
    \A i \in 1..Len(transactions) :
        /\ transactions[i].type = "transfer_out" =>
              /\ i < Len(transactions)
              /\ MatchingIn(transactions[i], transactions[i + 1])
        /\ transactions[i].type = "transfer_in" =>
              /\ i > 1
              /\ transactions[i - 1].type = "transfer_out"
              /\ MatchingIn(transactions[i - 1], transactions[i])

C2_Witness ==
    \E i \in 1..Len(transactions) :
        /\ transactions[i].type = "transfer_out"
        /\ transactions[i].userId = "A"
        /\ transactions[i].senderOrRecipient = "B"

TransferResumes ==
    /\ pending # <<>>
    /\ Head(pending).op = "transfer"
    /\ transactions' # transactions

\* C3: in every reachable state the sum of all actors' balances equals the
\* total of the deposit amounts minus the total of the withdrawal amounts
\* in the log, and a step that completes a transfer leaves that sum as it
\* was.
C3_Conservation ==
    /\ [](SumBalances = SumAmounts(OfType(transactions, "deposit"))
                        - SumAmounts(OfType(transactions, "withdrawal")))
    /\ [][TransferResumes => SumBalances' = SumBalances]_vars

C3_Witness ==
    /\ OfType(transactions, "transfer_in") # <<>>
    /\ OfType(transactions, "withdrawal") # <<>>
    /\ SumBalances > 0

\* C4: a step in which a deposit, withdraw or transfer call returns false
\* leaves the log, and so every balance, exactly as it was.
C4_FailedCallChangesNothing ==
    [][ret'.val = "false" =>
          /\ transactions' = transactions
          /\ \A u \in Actors :
                BalanceOf(transactions', u) = BalanceOf(transactions, u)]_vars

C4_Witness ==
    /\ ret = Promise("withdraw", "false")
    /\ view.currentUser # NoUser
    /\ balance >= 5000
    /\ ~checkRateLimits(5000, "withdrawal")

\* C5: between the checks of a withdraw or transfer and its append no other
\* mutating operation of the same actor appends to the log: whenever a
\* call appends, no withdraw or transfer of the same actor that has
\* already made its checks is still waiting to append.
C5_Serialized ==
    [][(pending # <<>> /\ transactions' # transactions) =>
          \A i \in 2..Len(pending) :
              ~ /\ pending[i].op \in {"withdraw", "transfer"}
                /\ pending[i].userId = Head(pending).userId]_vars

\* C6: in every reachable state, for every actor and every calendar day,
\* the withdrawal entries of that actor timestamped in that day sum to at
\* most 5000.
C6_DailyWithdrawalCap ==
    \A u \in Actors, d \in Days :
        TotalOnDay(transactions, u, "withdrawal", d) <= maxDailyWithdrawal

\* C7: in every reachable state, for every actor and every calendar day,
\* the transfer_out entries of that actor timestamped in that day sum to
\* at most 5000.
C7_DailyTransferCap ==
    \A u \in Actors, d \in Days :
        TotalOnDay(transactions, u, "transfer_out", d) <= maxDailyTransfer

\* Withdrawals of A that have completed and are stamped within the
\* trailing 60 seconds
WithdrawalsInWindow ==
    Len(SelectSeq(transactions,
                  LAMBDA e : /\ e.userId = "A"
                             /\ e.type = "withdrawal"
                             /\ e.timestamp > now - MinuteMs))

\* A withdraw of 1 was just called by A, when the calls that returned true
\* before it left A the funds for it and room under the daily cap
FundedWithdrawCalled ==
    /\ ret.op = "withdraw"
    /\ ret.val \in {"pending", "false"}
    /\ BalanceOf(transactions, "A") >= 1
    /\ DailyTotal(transactions, "A", "withdrawal", now) + 1
           <= maxDailyWithdrawal

\* C8: of withdrawals of 1 issued one after another by a funded actor, each
\* once the one before has returned, a call is denied exactly when 5
\* withdrawals of that actor already lie in the trailing 60 seconds (the
\* 6th, never the 5th).
C8_DeniedOnSixthWithdrawal ==
    FundedWithdrawCalled =>
        (ret.val = "false" <=> WithdrawalsInWindow >= maxTransactionsPerMinute)

\* The first k calls of the scenario have been made and have returned
Returned(k) == Len(script) = Len(Scenario) - k /\ pending = <<>>

CountWhere(log, userId, type, amount, other) ==
    Len(SelectSeq(log, LAMBDA e : /\ e.userId = userId
                                  /\ e.type = type
                                  /\ e.amount = amount
                                  /\ e.senderOrRecipient = other))

\* C9: from the empty log, A deposits 100 (balance 100), withdraws 30
\* (balance 70), transfers 50 to B (A 20, B 50, one transfer_out(A,50,B)
\* and one transfer_in(B,50,A)), then fails to withdraw 25 (returns false,
\* A still 20, no new entry), each call made once the one before has
\* returned.  ret holds the value returned by the step just taken, and is
\* NoRet again once the clock has moved on.
C9_Scenario ==
    /\ Returned(0) => transactions = <<>>
    /\ Returned(1) =>
          /\ BalanceOf(transactions, "A") = 100
          /\ Len(transactions) = 1
    /\ Returned(2) =>
          /\ BalanceOf(transactions, "A") = 70
          /\ CountWhere(transactions, "A", "withdrawal", 30, NoUser) = 1
          /\ Len(transactions) = 2
    /\ Returned(3) =>
          /\ BalanceOf(transactions, "A") = 20
          /\ BalanceOf(transactions, "B") = 50
          /\ CountWhere(transactions, "A", "transfer_out", 50, "B") = 1
          /\ CountWhere(transactions, "B", "transfer_in", 50, "A") = 1
          /\ Len(transactions) = 4
    /\ Returned(4) =>
          /\ ret \in {Promise("withdraw", "false"), NoRet}
          /\ BalanceOf(transactions, "A") = 20
          /\ BalanceOf(transactions, "B") = 50
          /\ Len(transactions) = 4

\* C10: the transfer_out entry and the transfer_in entry appended by one
\* transfer carry the same timestamp.
C10_PairSharesTimestamp ==
    \A i \in 1..Len(transactions) :
        (transactions[i].type = "transfer_out" /\ i < Len(transactions)) =>
            transactions[i + 1].timestamp = transactions[i].timestamp


\* Amounts a caller may ask for when the outcomes of two requests are compared
ProbeAmounts == {5000, 10000}

DeniedByRateLimit(a) ==
    /\ view.currentUser # NoUser
    /\ a > 0
    /\ a <= balance
    /\ ~checkRateLimits(a, "withdrawal")

DeniedForFunds(a) ==
    /\ view.currentUser # NoUser
    /\ a > 0
    /\ a > balance

\* C11: a withdraw denied by the rate limiter returns a value different
\* from that of a withdraw denied for insufficient funds.
C11_DenialsDistinguishable ==
    \A a1, a2 \in ProbeAmounts :
        (DeniedByRateLimit(a1) /\ DeniedForFunds(a2)) =>
            withdrawReturns(a1) # withdrawReturns(a2)

\* C12: every transfer_in entry of the log is owned by a registered user
\* (a transfer to an id getUserById does not know appends nothing).  A user
\* counts as registered when getUserById finds it or when `users` holds it
\* and only the render lags behind.
C12_RecipientsKnown ==
    \A e \in Range(transactions) :
        e.type = "transfer_in" =>
            getUserById(e.userId) # NoUser \/ e.userId \in UserIds(users)


\* C13: a transfer call whose recipient is the calling actor (the current
\* actor of the render the call is made from) returns false and appends
\* nothing, and in every reachable state no transfer entry has its owner as
\* its counterparty.
C13_NoSelfTransfer ==
    /\ [](\A e \in Range(transactions) :
             e.type \in {"transfer_in", "transfer_out"} =>
                 e.userId # e.senderOrRecipient)
    /\ [][\A a \in Amounts :
             transfer(a, view.currentUser) =>
                 /\ ret'.val = "false"
                 /\ transactions' = transactions
                 /\ pending' = pending]_vars

C13_Witness ==
    /\ ret = Promise("transfer", "false")
    /\ view.currentUser # NoUser
    /\ balance >= 5000
    /\ checkRateLimits(5000, "transfer")
    /\ \E r \in Recipients : ~transferRejects(5000, r)

DepositResumes ==
    /\ pending # <<>>
    /\ Head(pending).op = "deposit"
    /\ pending' = Tail(pending)

\* C14: a deposit of amount > 0 by a logged-in actor (the current actor of
\* the render the call is made from) is accepted whatever the log holds,
\* the log of that render and the log behind it alike, and when it completes it appends exactly one deposit
\* entry owned by the calling actor, raises that actor's balance by exactly
\* the amount and leaves every other actor's balance unchanged.
C14_DepositUnrestricted ==
    /\ [][\A a \in MinuteDeposits :
             (view.currentUser # NoUser /\ a > 0 /\ deposit(a)) =>
                 /\ ret' = Promise("deposit", "pending")
                 /\ Len(pending') = Len(pending) + 1]_vars
    /\ [][DepositResumes =>
             LET c == Head(pending) IN
             /\ ret' = Promise("deposit", "true")
             /\ Len(transactions') = Len(transactions) + 1
             /\ SubSeq(transactions', 1, Len(transactions)) = transactions
             /\ LET e == transactions'[Len(transactions')] IN
                   /\ e.userId = c.userId
                   /\ e.type = "deposit"
                   /\ e.amount = c.amount
             /\ \A u \in Actors :
                   BalanceOf(transactions', u) =
                       BalanceOf(transactions, u)
                           + (IF u = c.userId THEN c.amount ELSE 0)]_vars

\* A deposit has completed for an actor whose render showed 5 entries in
\* the trailing minute when the deposit was called, while the other actor
\* holds funds
C14_Witness ==
    /\ ret = Promise("deposit", "true")
    /\ view.currentUser # NoUser
    /\ transactions[Len(transactions)].userId = view.currentUser
    /\ Len(RecentTransactions(view.transactions, view.currentUser,
                              now - TimerMs)) >= maxTransactionsPerMinute
    /\ Len(view.transactions) < Len(transactions)
    /\ \E u \in Actors \ {view.currentUser} : BalanceOf(transactions, u) > 0


\* C15: every entry of the log, and every call waiting to append one, has
\* amount > 0: deposit, withdraw and transfer return false for amount <= 0
\* before anything is appended.
C15_AmountsPositive ==
    /\ \A e \in Range(transactions) : e.amount > 0
    /\ \A c \in Range(pending) : c.op \in WalletOps => c.amount > 0

C15_Witness ==
    /\ ret = Promise("deposit", "false")
    /\ view.currentUser # NoUser
    /\ transactions # <<>>

\* C16: every step leaves the log before it as a prefix of the log after
\* it, longer by exactly one entry when a deposit or withdraw completes,
\* by exactly two when a transfer completes, and by none otherwise.
C16_AppendOnly ==
    [][/\ Len(transactions') >= Len(transactions)
       /\ SubSeq(transactions', 1, Len(transactions)) = transactions
       /\ Len(transactions') - Len(transactions) =
              (IF Len(pending') < Len(pending)
               THEN WillAppend(Head(pending).op) ELSE 0)
       /\ Len(pending') < Len(pending) =>
              ret' = Promise(Head(pending).op, ret'.val)]_vars

C16_Witness ==
    /\ ret = Promise("transfer", "true")
    /\ Len(transactions) >= 3
    /\ transactions[1].type = "deposit"


\* C17: getTransactionHistory returns exactly the entries of the log owned
\* by the current actor, each once, ordered by timestamp descending, with
\* entries of equal timestamp in their insertion order; with no current
\* actor it returns the empty sequence.  The log and the current actor are
\* those of the render the function belongs to.
C17_HistoryOrdered ==
    LET log == view.transactions
        h == HistoryOrder(log, view.currentUser)
        g == getTransactionHistory
        own == {i \in 1..Len(log) : log[i].userId = view.currentUser}
    IN  /\ Len(g) = Cardinality(own)
        /\ {h[k] : k \in 1..Len(h)} = own
        /\ \A k \in 1..Len(h) : g[k] = log[h[k]]
        /\ \A j, k \in 1..Len(h) :
              j < k =>
                  /\ log[h[j]].timestamp >= log[h[k]].timestamp
                  /\ log[h[j]].timestamp = log[h[k]].timestamp => h[j] < h[k]
        /\ view.currentUser = NoUser => g = <<>>

\* The current actor's history holds two entries of one timestamp and an
\* older one, while the log also holds an entry of another actor
C17_Witness ==
    LET g == getTransactionHistory
    IN  /\ Len(g) >= 3
        /\ Len(g) < Len(view.transactions)
        /\ \E j \in 1..(Len(g) - 1) : g[j].timestamp = g[j + 1].timestamp
        /\ g[1].timestamp > g[Len(g)].timestamp


OwnedBy(log, user) == SelectSeq(log, LAMBDA e : e.userId = user)

NotOwnedBy(log, user) == SelectSeq(log, LAMBDA e : e.userId # user)

OwnTotal(log, user, type) ==
    SumAmounts(SelectSeq(log, LAMBDA e : e.userId = user /\ e.type = type))

\* C18: the balance of an actor equals the sum of that actor's deposit and
\* transfer_in amounts minus the sum of that actor's withdrawal and
\* transfer_out amounts, is 0 for an actor without entries, and is the same
\* on the log with every other actor's entries removed; the balance the
\* wallet exposes is that of the current actor (0 when there is none), on
\* the log of the render it was computed in.
C18_BalanceFromLog ==
    /\ \A log \in {transactions, view.transactions}, u \in Actors :
          LET b == BalanceOf(log, u)
          IN  /\ b = OwnTotal(log, u, "deposit")
                     + OwnTotal(log, u, "transfer_in")
                     - OwnTotal(log, u, "withdrawal")
                     - OwnTotal(log, u, "transfer_out")
              /\ (\A e \in Range(log) : e.userId # u) => b = 0
              /\ b = BalanceOf(OwnedBy(log, u), u)
    /\ \A u \in Actors :
          view.currentUser = u =>
              balance = OwnTotal(view.transactions, u, "deposit")
                        + OwnTotal(view.transactions, u, "transfer_in")
                        - OwnTotal(view.transactions, u, "withdrawal")
                        - OwnTotal(view.transactions, u, "transfer_out")
    /\ view.currentUser = NoUser => balance = 0

\* The current actor has deposited, sent a transfer and withdrawn, and
\* another actor has received the transfer, all of it rendered
C18_Witness ==
    /\ view.currentUser # NoUser
    /\ OwnTotal(view.transactions, view.currentUser, "deposit") > 0
    /\ OwnTotal(view.transactions, view.currentUser, "transfer_out") > 0
    /\ OwnTotal(view.transactions, view.currentUser, "withdrawal") > 0
    /\ \E e \in Range(view.transactions) :
          e.userId # view.currentUser /\ e.type = "transfer_in"


\* C19: whether a transfer is allowed depends only on the sender's entries:
\* at the same instant the same request gets the same outcome on the log
\* the call reads, on that log without the entries of every other actor,
\* and on that log with those entries doubled.
C19_SenderHistoryOnly ==
    LET sender == view.currentUser
        own == OwnedBy(view.transactions, sender)
        doubled == view.transactions \o NotOwnedBy(view.transactions, sender)
    IN  \A a \in Amounts \cup ProbeAmounts, r \in Recipients :
            /\ transferRejects(a, r) = TransferRejects(own, sender, now, a, r)
            /\ transferRejects(a, r)
                   = TransferRejects(doubled, sender, now, a, r)

\* The current actor may transfer 5000 while another actor has already
\* transferred 5000 out today
C19_Witness ==
    /\ view.currentUser # NoUser
    /\ \E r \in Actors : ~transferRejects(5000, r)
    /\ \E e \in Range(view.transactions) :
          /\ e.userId # view.currentUser
          /\ e.type = "transfer_out"
          /\ e.timestamp >= StartOfDay(now)

\* The call passes every check made before the rate limiter is consulted
LimiterConsulted(amount) ==
    view.currentUser # NoUser /\ amount > 0 /\ amount <= balance

\* C21: a withdraw or transfer call in which the rate limits are evaluated
\* leaves the log, the current actor, the registered users and the clock
\* as they were, whether the limiter allows or denies; a denial leaves the
\* waiting calls as they were too, and an allowance adds only the call
\* itself to them.
C21_LimiterReadsOnly ==
    [][\A a \in Amounts :
          /\ (LimiterConsulted(a) /\ withdraw(a)) =>
                /\ UNCHANGED <<transactions, currentUser, users, now>>
                /\ IF checkRateLimits(a, "withdrawal")
                   THEN pending' = Append(pending, Call("withdraw", a, NoUser))
                   ELSE pending' = pending
          /\ \A r \in Actors \ {view.currentUser} :
                (LimiterConsulted(a) /\ transfer(a, r)) =>
                    /\ UNCHANGED <<transactions, currentUser, users, now>>
                    /\ IF checkRateLimits(a, "transfer")
                       THEN pending' = Append(pending, Call("transfer", a, r))
                       ELSE pending' = pending]_vars

\* The limiter has just allowed a transfer of an actor whose log is not
\* empty
C21_Witness ==
    /\ ret = Promise("transfer", "pending")
    /\ view.transactions # <<>>
    /\ checkRateLimits(5000, "transfer")
    /\ pending # <<>>

\* C22: for every actor, the timestamps of that actor's entries are
\* non-decreasing in the order the entries appear in the log.
C22_TimestampsOrdered ==
    \A i, j \in 1..Len(transactions) :
        (i < j /\ transactions[i].userId = transactions[j].userId) =>
            transactions[i].timestamp <= transactions[j].timestamp

\* An actor owns the entry of a deposit and, later in the log and with a
\* later timestamp, the entry of a transfer it sent, whose other half
\* carries a timestamp later still
C22_Witness ==
    \E i, j \in 1..Len(transactions) :
        /\ i < j /\ j < Len(transactions)
        /\ transactions[i].userId = transactions[j].userId
        /\ transactions[i].type = "deposit"
        /\ transactions[j].type = "transfer_out"
        /\ transactions[i].timestamp < transactions[j].timestamp
        /\ transactions[j + 1].type = "transfer_in"
        /\ transactions[j].timestamp < transactions[j + 1].timestamp

\* C23: a withdraw that both breaks a rate limit and exceeds the balance
\* fails at the rate limiter (the limiter is consulted before the funds are
\* validated), and the value it returns differs from that of a withdraw
\* that exceeds the balance only.
C23_LimiterBeforeFunds ==
    \A a1, a2 \in ProbeAmounts :
        (/\ view.currentUser # NoUser
         /\ a1 > balance
         /\ ~checkRateLimits(a1, "withdrawal")
         /\ a2 > balance
         /\ checkRateLimits(a2, "withdrawal")) =>
            /\ withdrawFailure(a1) = "rate limit"
            /\ withdrawReturns(a1) # withdrawReturns(a2)

Requests == {"withdrawal", "transfer"}

\* The entries of the current actor, of any kind, less than 60 seconds old
MinuteCount ==
    Cardinality({i \in 1..Len(view.transactions) :
                    /\ view.transactions[i].userId = view.currentUser
                    /\ now - view.transactions[i].timestamp < MinuteMs})

\* C24: the per-minute rule counts the entries owned by the actor, of any
\* kind, whose timestamp is strictly later than now minus 60 seconds, and
\* denies exactly when that count is >= 5: a request within the
\* per-transaction cap leaves checkRateLimits at the per-minute rule exactly
\* then, is denied whenever the count is >= 5, and is allowed when the
\* count is below 5 and the daily rule has room.
C24_PerMinuteRule ==
    \A a \in LimiterAmounts, type \in Requests :
        LET kind == IF type = "withdrawal" THEN "withdrawal" ELSE "transfer_out"
            cap == IF type = "withdrawal" THEN maxDailyWithdrawal
                   ELSE maxDailyTransfer
            r == RateLimitReturn(view.transactions, view.currentUser, now, a, type)
        IN  /\ a <= maxAmountPerTransaction =>
                  (r = "per minute" <=> MinuteCount >= maxTransactionsPerMinute)
            /\ MinuteCount >= maxTransactionsPerMinute =>
                  ~checkRateLimits(a, type)
            /\ (/\ MinuteCount < maxTransactionsPerMinute
                /\ a <= maxAmountPerTransaction
                /\ DailyTotal(view.transactions, view.currentUser, kind, now) + a <= cap) =>
                  checkRateLimits(a, type)

\* A withdrawal the daily rule has room for is denied with exactly 5
\* entries of all four kinds in the trailing minute, while the log also
\* holds an entry of the actor exactly 60 seconds old and an entry of the
\* other actor inside the minute
C24_Witness ==
    /\ ret = Promise("withdraw", "false")
    /\ MinuteCount = maxTransactionsPerMinute
    /\ DailyTotal(view.transactions, view.currentUser, "withdrawal", now) + 2500
           <= maxDailyWithdrawal
    /\ \E e \in Range(view.transactions) :
          e.userId = view.currentUser /\ e.timestamp = now - MinuteMs
    /\ \E e \in Range(view.transactions) :
          e.userId # view.currentUser /\ e.timestamp > now - MinuteMs
    /\ \A k \in {"deposit", "withdrawal", "transfer_in", "transfer_out"} :
          \E e \in Range(view.transactions) :
              e.userId = view.currentUser /\ e.type = k /\ e.timestamp > now - MinuteMs

\* C25: the per-transaction rule denies exactly when amount > 10000 and is
\* tried before the per-minute and daily rules: for a logged-in actor
\* checkRateLimits leaves at the per-transaction rule exactly when the
\* amount is above 10000, whatever the log holds, and then denies; an
\* amount of exactly 10000 goes on to the later rules.
C25_PerTransactionRule ==
    \A a \in LimiterAmounts, type \in Requests :
        LET r == RateLimitReturn(view.transactions, view.currentUser, now, a, type)
        IN  /\ r = "per transaction" <=> a > maxAmountPerTransaction
            /\ a > maxAmountPerTransaction => ~checkRateLimits(a, type)
            /\ a = maxAmountPerTransaction =>
                  r \in {"per minute", "daily withdrawal", "daily transfer",
                         "allowed"}

\* A funded actor with 5 entries in the trailing minute has been denied a
\* transfer: 10001 stops at the per-transaction rule, 10000 at the
\* per-minute rule
C25_Witness ==
    /\ ret = Promise("transfer", "false")
    /\ balance >= 10001
    /\ MinuteCount >= maxTransactionsPerMinute
    /\ RateLimitReturn(view.transactions, view.currentUser, now, 10001, "transfer")
           = "per transaction"
    /\ RateLimitReturn(view.transactions, view.currentUser, now, 10000, "transfer")
           = "per minute"

KindOf(type) == IF type = "withdrawal" THEN "withdrawal" ELSE "transfer_out"

DailyCap(type) ==
    IF type = "withdrawal" THEN maxDailyWithdrawal ELSE maxDailyTransfer

DailyRule(type) ==
    IF type = "withdrawal" THEN "daily withdrawal" ELSE "daily transfer"

\* The local days that have started by instant t, counted on the clock of
\* the runtime: two instants lie in the same calendar day exactly when no
\* local midnight separates them, that is when their counts are equal
LocalDay(t) == Cardinality({m \in calendar : m <= t})

\* What the current actor moved out as entries of `kind` in the calendar
\* day of the clock (or later)
TodayTotal(kind) ==
    SumAmounts(SelectSeq(view.transactions,
        LAMBDA e : /\ e.userId = view.currentUser
                   /\ e.type = kind
                   /\ LocalDay(e.timestamp) >= LocalDay(now)))

\* C26: the daily rule of a category sums the actor's entries of the
\* matching kind stamped at or after the start of the current calendar day
\* (the day of the local clock of the runtime, whatever its time zone and
\* whether the day lasts 23, 24 or 25 hours) and denies exactly when that
\* sum plus the amount is > 5000: a request that passes the
\* per-transaction and per-minute rules leaves checkRateLimits at the
\* daily rule of its own category exactly then and is allowed otherwise,
\* and a request over the sum is denied in every case.
C26_DailyRule ==
    \A a \in LimiterAmounts, type \in Requests :
        LET r == RateLimitReturn(view.transactions, view.currentUser, now, a, type)
            over == TodayTotal(KindOf(type)) + a > DailyCap(type)
        IN  /\ over => ~checkRateLimits(a, type)
            /\ (/\ a <= maxAmountPerTransaction
                /\ MinuteCount < maxTransactionsPerMinute) =>
                  /\ r = DailyRule(type) <=> over
                  /\ r = "allowed" <=> ~over

\* On a runtime whose local midnight is no multiple of 24 hours since
\* instant 0, a withdrawal of 2500 has been allowed that brings today's
\* withdrawals to exactly 5000, while the log holds a withdrawal of the
\* actor stamped at the very first instant of today, one stamped in the
\* previous local day less than 24 hours before the clock and in the same
\* 24 hours since instant 0, and today's transfers have used up the
\* transfer allowance
C26_Witness ==
    /\ ret = Promise("withdraw", "pending")
    /\ pending # <<>>
    /\ Head(pending).amount = 2500
    /\ TodayTotal("withdrawal") = 2500
    /\ TodayTotal("transfer_out") >= maxDailyTransfer
    /\ ~checkRateLimits(2500, "transfer")
    /\ \E e \in Range(view.transactions) :
          /\ e.userId = view.currentUser
          /\ e.type = "withdrawal"
          /\ LocalDay(e.timestamp) < LocalDay(now)
          /\ e.timestamp \div MsPerDay = now \div MsPerDay
    /\ \E e \in Range(view.transactions) :
          /\ e.userId = view.currentUser
          /\ e.type = "withdrawal"
          /\ LocalDay(e.timestamp) = LocalDay(now)
          /\ LocalDay(e.timestamp - 1) < LocalDay(now)

\* The balance-decreasing entries of `user` stamped in the 60 seconds that
\* start at instant t
DecreasesInWindow(log, user, t) ==
    Cardinality({j \in 1..Len(log) :
                    /\ log[j].userId = user
                    /\ log[j].type \in {"withdrawal", "transfer_out"}
                    /\ log[j].timestamp >= t
                    /\ log[j].timestamp < t + MinuteMs})

\* C27: in every reachable state, for every actor, at most 5 of the
\* actor's withdrawal and transfer_out entries lie in any single 60-second
\* window, also when several calls were started before the earlier ones
\* had appended.
C27_DecreasesPerWindow ==
    \A u \in Actors, i \in 1..Len(transactions) :
        DecreasesInWindow(transactions, u, transactions[i].timestamp)
            <= maxTransactionsPerMinute

\* The entries the step has appended
Appended == SubSeq(transactions', Len(transactions) + 1, Len(transactions'))

\* C28: every entry is attributed to the actor who was current when the
\* call was made: a call that starts to wait is recorded for the current
\* actor of the render it is made from, and whoever is current when it
\* appends, the entry it appends is
\* owned by the actor it was recorded for, as is the counterparty of the
\* transfer_in entry of a transfer.
C28_OwnedByCaller ==
    [][/\ (/\ Len(pending') > Len(pending)
           /\ pending'[Len(pending')].op \in WalletOps) =>
             /\ view.currentUser # NoUser
             /\ pending'[Len(pending')].userId = view.currentUser
       /\ (pending # <<>> /\ transactions' # transactions) =>
             /\ Appended[1].userId = Head(pending).userId
             /\ Head(pending).op = "transfer" =>
                   /\ Len(Appended) = 2
                   /\ Appended[2].userId = Head(pending).recipientId
                   /\ Appended[2].senderOrRecipient = Head(pending).userId]_vars

\* A transfer has completed while an actor other than its caller was the
\* current actor
C28_Witness ==
    /\ ret = Promise("transfer", "true")
    /\ currentUser # NoUser
    /\ view.currentUser = currentUser
    /\ transactions[Len(transactions)].type = "transfer_in"
    /\ transactions[Len(transactions)].senderOrRecipient # currentUser

\* With no current actor every request is refused and the history is empty
NoActorRefused ==
    view.currentUser = NoUser =>
        /\ \A a \in Amounts \cup ProbeAmounts :
              /\ depositRejects(a)
              /\ withdrawRejects(a)
              /\ \A r \in Actors : transferRejects(a, r)
              /\ \A type \in Requests : ~checkRateLimits(a, type)
        /\ getTransactionHistory = <<>>

\* A call made with no current actor returns false and appends nothing
NoActorCallFails ==
    \A a \in Amounts, r \in Actors :
        (view.currentUser = NoUser
             /\ (deposit(a) \/ withdraw(a) \/ transfer(a, r))) =>
            /\ ret'.val = "false"
            /\ UNCHANGED <<transactions, pending>>

=============================================================================
